---------------------------- MODULE Spec2Model ----------------------------
(*
  src/psbt_tx.ts declares one module-level constant, requestBody: the body of
  a "create transaction and wait" request asking a signing service to sign a
  PSBT. The file holds no function and no statement besides the declaration.

  The model holds the value the object literal evaluates to, and the two
  operations a holder of the constant applies to it when the request is sent
  and read back: JSON.stringify (ECMA-262 25.5.2) on the constant or on any
  value reachable from it by property access, with the `space` argument from
  0 to MaxIndent, and JSON.parse (ECMA-262 25.5.1) on the text produced.
  Strings are sequences of one-character strings, so that quoting, the hex
  and UUID formats and the number <-> digits conversions are computed and
  not assumed.
*)
EXTENDS Integers, Sequences, FiniteSets, TLC

\* Largest `space` argument given to JSON.stringify (ECMA-262 clamps it to 10).
MaxIndent == 2

-----------------------------------------------------------------------------
(* JavaScript values. Every value is a record of the same shape; t names
   the type, the other fields hold the type's payload and are empty for the
   other types. An object keeps its own properties in creation order. *)

Val(t, s, neg, int, frac, b, keys, kids) ==
    [t |-> t, s |-> s, neg |-> neg, int |-> int, frac |-> frac, b |-> b,
     keys |-> keys, kids |-> kids]

Undefined == Val("undefined", <<>>, FALSE, <<>>, <<>>, FALSE, <<>>, <<>>)
Null      == Val("null", <<>>, FALSE, <<>>, <<>>, FALSE, <<>>, <<>>)
Str(s)    == Val("string", s, FALSE, <<>>, <<>>, FALSE, <<>>, <<>>)
Bool(b)   == Val("boolean", <<>>, FALSE, <<>>, <<>>, b, <<>>, <<>>)
\* A finite number written in decimal: sign, digits of the integer part (most
\* significant first, no leading zero), digits of the fraction (no trailing
\* zero; empty for an integer).
Num(neg, int, frac) == Val("number", <<>>, neg, int, frac, FALSE, <<>>, <<>>)
Arr(kids) == Val("array", <<>>, FALSE, <<>>, <<>>, FALSE, <<>>, kids)
Obj(keys, kids) == Val("object", <<>>, FALSE, <<>>, <<>>, FALSE, keys, kids)

-----------------------------------------------------------------------------
\* Property names of the literal, as character sequences.
k_createTransactionWithWaitRequest ==
    <<"c", "r", "e", "a", "t", "e", "T", "r", "a", "n", "s", "a", "c", "t", "i", "o",
      "n", "W", "i", "t", "h", "W", "a", "i", "t", "R", "e", "q", "u", "e", "s", "t">>
k_waitForState ==
    <<"w", "a", "i", "t", "F", "o", "r", "S", "t", "a", "t", "e">>
k_type ==
    <<"t", "y", "p", "e">>
k_signerType ==
    <<"s", "i", "g", "n", "e", "r", "T", "y", "p", "e">>
k_details ==
    <<"d", "e", "t", "a", "i", "l", "s">>
k_inputs ==
    <<"i", "n", "p", "u", "t", "s">>
k_index ==
    <<"i", "n", "d", "e", "x">>
k_sighashTypes ==
    <<"s", "i", "g", "h", "a", "s", "h", "T", "y", "p", "e", "s">>
k_signerIdentity ==
    <<"s", "i", "g", "n", "e", "r", "I", "d", "e", "n", "t", "i", "t", "y">>
k_address ==
    <<"a", "d", "d", "r", "e", "s", "s">>
k_disableTweakSigner ==
    <<"d", "i", "s", "a", "b", "l", "e", "T", "w", "e", "a", "k", "S", "i", "g", "n",
      "e", "r">>
k_autoFinalize ==
    <<"a", "u", "t", "o", "F", "i", "n", "a", "l", "i", "z", "e">>
k_psbtRawData ==
    <<"p", "s", "b", "t", "R", "a", "w", "D", "a", "t", "a">>
k_sender ==
    <<"s", "e", "n", "d", "e", "r">>
k_chain ==
    <<"c", "h", "a", "i", "n">>
k_uniqueId ==
    <<"u", "n", "i", "q", "u", "e", "I", "d">>
k_chainType ==
    <<"c", "h", "a", "i", "n", "T", "y", "p", "e">>
k_addressType ==
    <<"a", "d", "d", "r", "e", "s", "s", "T", "y", "p", "e">>
k_pushMode ==
    <<"p", "u", "s", "h", "M", "o", "d", "e">>
k_note ==
    <<"n", "o", "t", "e">>
k_vaultId ==
    <<"v", "a", "u", "l", "t", "I", "d">>
k_xIdempotenceId ==
    <<"x", "I", "d", "e", "m", "p", "o", "t", "e", "n", "c", "e", "I", "d">>
k_xSignature ==
    <<"x", "S", "i", "g", "n", "a", "t", "u", "r", "e">>
k_xTimestamp ==
    <<"x", "T", "i", "m", "e", "s", "t", "a", "m", "p">>

\* String values of the literal, as character sequences.
s_signed ==
    <<"s", "i", "g", "n", "e", "d">>
s_utxo_transaction ==
    <<"u", "t", "x", "o", "_", "t", "r", "a", "n", "s", "a", "c", "t", "i", "o", "n">>
s_api_signer ==
    <<"a", "p", "i", "_", "s", "i", "g", "n", "e", "r">>
s_utxo_partially_signed_bitcoin_transaction ==
    <<"u", "t", "x", "o", "_", "p", "a", "r", "t", "i", "a", "l", "l", "y", "_", "s",
      "i", "g", "n", "e", "d", "_", "b", "i", "t", "c", "o", "i", "n", "_", "t", "r",
      "a", "n", "s", "a", "c", "t", "i", "o", "n">>
s_address ==
    <<"a", "d", "d", "r", "e", "s", "s">>
s_bitcoin_mainnet ==
    <<"b", "i", "t", "c", "o", "i", "n", "_", "m", "a", "i", "n", "n", "e", "t">>
s_utxo ==
    <<"u", "t", "x", "o">>
s_taproot ==
    <<"t", "a", "p", "r", "o", "o", "t">>
s_manual ==
    <<"m", "a", "n", "u", "a", "l">>
signerAddressChars ==
    <<"b", "c", "1", "p", "0", "q", "2", "a", "a", "l", "j", "3", "r", "6", "t", "7",
      "p", "8", "6", "l", "s", "8", "f", "3", "u", "7", "p", "z", "q", "7", "6", "q",
      "v", "z", "4", "z", "z", "8", "n", "q", "u", "x", "k", "w", "0", "w", "v", "c",
      "d", "a", "v", "y", "l", "t", "u", "q", "g", "8", "h", "z", "k", "w">>
senderAddressChars ==
    <<"b", "c", "1", "p", "0", "q", "2", "a", "a", "l", "j", "3", "r", "6", "t", "7",
      "p", "8", "6", "l", "s", "8", "f", "3", "u", "7", "p", "z", "q", "7", "6", "q",
      "v", "z", "4", "z", "z", "8", "n", "q", "u", "x", "k", "w", "0", "w", "v", "c",
      "d", "a", "v", "y", "l", "t", "u", "q", "g", "8", "h", "z", "k", "w">>
psbtRawDataChars ==
    <<"0", "x", "7", "0", "7", "3", "6", "2", "7", "4", "f", "f", "0", "1", "0", "0",
      "d", "4", "0", "2", "0", "0", "0", "0", "0", "0", "0", "2", "7", "3", "d", "9",
      "2", "1", "4", "1", "2", "0", "7", "f", "8", "2", "1", "f", "4", "e", "7", "9",
      "7", "b", "0", "b", "6", "d", "e", "f", "e", "0", "b", "9", "9", "1", "2", "5",
      "b", "3", "3", "a", "e", "b", "b", "a", "d", "e", "2", "2", "8", "2", "9", "a",
      "9", "5", "e", "f", "c", "b", "2", "e", "9", "e", "a", "0", "0", "0", "0", "0",
      "0", "0", "0", "0", "0", "0", "f", "f", "f", "f", "f", "f", "f", "f", "f", "5",
      "5", "f", "f", "9", "8", "3", "0", "1", "7", "6", "a", "b", "1", "f", "d", "9",
      "7", "7", "4", "d", "e", "3", "a", "0", "4", "9", "5", "a", "7", "7", "e", "e",
      "2", "0", "6", "d", "8", "e", "f", "3", "f", "e", "d", "7", "3", "6", "e", "d",
      "3", "8", "a", "2", "e", "4", "0", "7", "4", "d", "b", "0", "6", "c", "0", "0",
      "0", "0", "0", "0", "0", "0", "0", "0", "f", "f", "f", "f", "f", "f", "f", "f",
      "0", "4", "2", "2", "0", "2", "0", "0", "0", "0", "0", "0", "0", "0", "0", "0",
      "0", "0", "1", "6", "0", "0", "1", "4", "f", "b", "4", "4", "7", "b", "8", "b",
      "1", "6", "c", "9", "e", "9", "9", "4", "2", "f", "b", "1", "9", "4", "3", "3",
      "5", "2", "4", "6", "a", "8", "6", "8", "1", "2", "9", "b", "b", "f", "2", "a",
      "2", "2", "0", "2", "0", "0", "0", "0", "0", "0", "0", "0", "0", "0", "0", "0",
      "1", "6", "0", "0", "1", "4", "c", "6", "b", "1", "b", "5", "e", "5", "5", "0",
      "3", "5", "a", "6", "e", "8", "4", "0", "1", "f", "9", "6", "b", "a", "f", "7",
      "7", "2", "d", "a", "8", "e", "4", "c", "d", "0", "5", "d", "0", "a", "a", "f",
      "2", "1", "0", "0", "0", "0", "0", "0", "0", "0", "0", "0", "0", "0", "1", "6",
      "0", "0", "1", "4", "c", "6", "b", "1", "b", "5", "e", "5", "5", "0", "3", "5",
      "a", "6", "e", "8", "4", "0", "1", "f", "9", "6", "b", "a", "f", "7", "7", "2",
      "d", "a", "8", "e", "4", "c", "d", "0", "5", "d", "0", "a", "0", "0", "0", "0",
      "0", "0", "0", "0", "0", "0", "0", "0", "0", "0", "0", "0", "1", "2", "6", "a",
      "5", "d", "0", "f", "1", "6", "0", "1", "0", "0", "e", "6", "a", "2", "3", "3",
      "f", "c", "0", "7", "8", "0", "8", "8", "a", "5", "a", "9", "a", "3", "0", "7",
      "0", "0", "0", "0", "0", "0", "0", "0", "0", "0", "0", "0", "0", "1", "0", "1",
      "2", "b", "1", "0", "2", "7", "0", "0", "0", "0", "0", "0", "0", "0", "0", "0",
      "0", "0", "2", "2", "5", "1", "2", "0", "7", "8", "1", "5", "d", "e", "f", "e",
      "5", "1", "1", "e", "9", "7", "e", "0", "9", "f", "5", "f", "8", "1", "d", "3",
      "1", "e", "7", "8", "2", "2", "0", "7", "b", "4", "0", "6", "0", "a", "a", "2",
      "1", "1", "e", "6", "0", "e", "1", "a", "c", "e", "7", "b", "9", "9", "8", "6",
      "f", "5", "8", "4", "f", "a", "f", "8", "0", "0", "0", "1", "0", "1", "1", "f",
      "2", "2", "0", "2", "0", "0", "0", "0", "0", "0", "0", "0", "0", "0", "0", "0",
      "1", "6", "0", "0", "1", "4", "c", "6", "b", "1", "b", "5", "e", "5", "5", "0",
      "3", "5", "a", "6", "e", "8", "4", "0", "1", "f", "9", "6", "b", "a", "f", "7",
      "7", "2", "d", "a", "8", "e", "4", "c", "d", "0", "5", "d", "0", "a", "2", "2",
      "0", "2", "0", "2", "3", "2", "6", "9", "f", "f", "8", "7", "4", "a", "3", "c",
      "4", "5", "7", "5", "c", "a", "f", "e", "6", "8", "d", "6", "5", "a", "e", "3",
      "1", "3", "b", "9", "9", "9", "a", "f", "5", "b", "4", "c", "2", "f", "9", "3",
      "7", "b", "1", "d", "b", "4", "6", "c", "b", "4", "3", "b", "b", "6", "c", "f",
      "1", "8", "e", "2", "4", "8", "3", "0", "4", "5", "0", "2", "2", "1", "0", "0",
      "f", "b", "e", "1", "0", "5", "9", "a", "9", "0", "9", "9", "c", "c", "e", "6",
      "1", "7", "7", "d", "d", "4", "c", "c", "6", "a", "7", "a", "c", "d", "a", "1",
      "0", "c", "8", "6", "5", "c", "d", "e", "d", "4", "9", "f", "0", "e", "9", "1",
      "f", "0", "e", "7", "a", "7", "6", "7", "4", "4", "0", "d", "2", "8", "b", "a",
      "0", "2", "2", "0", "3", "5", "4", "c", "8", "a", "5", "c", "8", "4", "6", "6",
      "e", "9", "e", "f", "5", "8", "d", "1", "3", "2", "d", "2", "8", "5", "e", "c",
      "b", "d", "a", "4", "e", "2", "9", "b", "5", "0", "6", "0", "a", "8", "1", "8",
      "e", "4", "2", "1", "2", "5", "8", "3", "8", "f", "a", "3", "f", "2", "6", "5",
      "e", "0", "1", "6", "0", "1", "0", "0", "0", "0", "0", "0", "0", "0", "0", "0">>
vaultIdChars ==
    <<"1", "c", "c", "9", "1", "b", "9", "d", "-", "e", "7", "5", "d", "-", "4", "4",
      "5", "e", "-", "9", "f", "a", "7", "-", "3", "c", "6", "d", "3", "e", "3", "d",
      "e", "c", "3", "0">>
xSignatureChars ==
    <<"M", "E", "Q", "C", "H", "3", "o", "r", "f", "3", "l", "v", "P", "Y", "A", "7",
      "9", "6", "A", "x", "X", "L", "A", "/", "T", "X", "W", "2", "X", "5", "N", "1",
      "m", "X", "n", "z", "x", "P", "K", "i", "v", "E", "h", "0", "O", "B", "A", "C",
      "I", "Q", "D", "W", "t", "k", "T", "a", "D", "9", "S", "O", "f", "+", "q", "e",
      "9", "G", "e", "K", "K", "u", "I", "G", "y", "w", "Z", "i", "j", "E", "Z", "d",
      "2", "K", "X", "x", "3", "9", "J", "g", "p", "9", "A", "e", "G", "g", "=", "=">>
\* The numeric literal of xTimestamp, as its decimal digits (it exceeds the
\* 32-bit integers of the model checker).
xTimestampDigits ==
    <<1, 7, 3, 7, 0, 3, 1, 0, 5, 4, 0, 5, 8>>
-----------------------------------------------------------------------------
(* The object literal of src/psbt_tx.ts, innermost records first. *)

\* Variant: the hex digits without the "0x" prefix.
psbtRawDataNoPrefix == Str(SubSeq(psbtRawDataChars, 3, Len(psbtRawDataChars)))
psbtRawData == Str(psbtRawDataChars)
\* Variant: the 32 hex digits of the UUID without its hyphens.
vaultIdNoHyphens == Str(SelectSeq(vaultIdChars, LAMBDA c : c # "-"))
vaultId == Str(vaultIdChars)
xSignature == Str(xSignatureChars)
\* Variant: the timestamp in seconds, the milliseconds as a fraction.
xTimestampSeconds ==
    Num(FALSE, SubSeq(xTimestampDigits, 1, Len(xTimestampDigits) - 3),
        SubSeq(xTimestampDigits, Len(xTimestampDigits) - 2, Len(xTimestampDigits)))
xTimestamp == Num(FALSE, xTimestampDigits, <<>>)

\* Variant: the sighash type left undefined inside the array.
sighashTypesSparse == Arr(<<Undefined>>)
sighashTypes == Arr(<<Num(FALSE, <<1>>, <<>>)>>)

\* Variant: a signer address that is not the sender's.
signerIdentityOther ==
    Obj(<<k_type, k_address>>,
        <<Str(s_address),
          Str(Append(SubSeq(signerAddressChars, 1, Len(signerAddressChars) - 1), "x"))>>)

signerIdentity ==
    Obj(<<k_type, k_address>>,
        <<Str(s_address), Str(signerAddressChars)>>)

\* Variant: the instruction names the second input of the PSBT.
input1 ==
    Obj(<<k_index, k_sighashTypes, k_signerIdentity, k_disableTweakSigner>>,
        <<Num(FALSE, <<1>>, <<>>), sighashTypes, signerIdentity, Undefined>>)

input0 ==
    Obj(<<k_index, k_sighashTypes, k_signerIdentity, k_disableTweakSigner>>,
        <<Num(FALSE, <<0>>, <<>>), sighashTypes, signerIdentity, Undefined>>)

inputs == Arr(<<input0>>)

chain ==
    Obj(<<k_uniqueId, k_chainType>>,
        <<Str(s_bitcoin_mainnet), Str(s_utxo)>>)

sender ==
    Obj(<<k_address, k_chain, k_addressType>>,
        <<Str(senderAddressChars), chain, Str(s_taproot)>>)

\* Variant: note and vaultId written inside details.
detailsWithVault ==
    Obj(<<k_type, k_inputs, k_autoFinalize, k_psbtRawData, k_sender, k_pushMode,
          k_note, k_vaultId>>,
        <<Str(s_utxo_partially_signed_bitcoin_transaction), inputs, Bool(FALSE),
          psbtRawData, sender, Str(s_manual), Undefined, vaultId>>)

details ==
    Obj(<<k_type, k_inputs, k_autoFinalize, k_psbtRawData, k_sender, k_pushMode>>,
        <<Str(s_utxo_partially_signed_bitcoin_transaction), inputs, Bool(FALSE),
          psbtRawData, sender, Str(s_manual)>>)

\* The name section 3 of the specification gives the chain-family tag.
k_transactionType ==
    <<"t", "r", "a", "n", "s", "a", "c", "t", "i", "o", "n", "T", "y", "p", "e">>

\* Variant: the chain-family tag under the name transactionType.
requestRenamed ==
    Obj(<<k_waitForState, k_transactionType, k_signerType, k_details, k_note, k_vaultId>>,
        <<Str(s_signed), Str(s_utxo_transaction), Str(s_api_signer), details,
          Undefined, vaultId>>)

createTransactionWithWaitRequest ==
    Obj(<<k_waitForState, k_type, k_signerType, k_details, k_note, k_vaultId>>,
        <<Str(s_signed), Str(s_utxo_transaction), Str(s_api_signer), details,
          Undefined, vaultId>>)

\* Variant: an idempotence key is supplied.
requestBodyKeyed ==
    Obj(<<k_createTransactionWithWaitRequest, k_xIdempotenceId, k_xSignature,
          k_xTimestamp>>,
        <<createTransactionWithWaitRequest, vaultId, xSignature, xTimestamp>>)

requestBodyLiteral ==
    Obj(<<k_createTransactionWithWaitRequest, k_xIdempotenceId, k_xSignature,
          k_xTimestamp>>,
        <<createTransactionWithWaitRequest, Undefined, xSignature, xTimestamp>>)

-----------------------------------------------------------------------------
(* Property access. *)

HasKey(o, k) == \E i \in 1..Len(o.keys) : o.keys[i] = k

\* o.k : the value of own property k, undefined when o has no such property.
Field(o, k) ==
    IF HasKey(o, k)
    THEN o.kids[CHOOSE i \in 1..Len(o.keys) : o.keys[i] = k]
    ELSE Undefined

\* a[i], i counted from 0: undefined past the end.
Elem(a, i) == IF i + 1 \in 1..Len(a.kids) THEN a.kids[i + 1] ELSE Undefined

\* The value reached from v by the chain p of property accesses, each step
\* given as the position of the property (or element) in its holder.
RECURSIVE Get(_, _)
Get(v, p) == IF p = <<>> THEN v ELSE Get(v.kids[Head(p)], Tail(p))

\* Every chain of property accesses that v admits.
RECURSIVE Paths(_)
Paths(v) ==
    {<<>>} \cup UNION {{<<i>> \o p : p \in Paths(v.kids[i])} : i \in 1..Len(v.kids)}

-----------------------------------------------------------------------------
(* JSON.stringify(value, undefined, space), ECMA-262 25.5.2, for the values
   above: no toJSON method, no replacer; numbers are finite and below 10^21
   in magnitude, which Number::toString writes without an exponent. The
   control characters a TLA+ string can hold are escaped as JSON escapes
   them. *)

Quote == "\""
Backslash == "\\"
DigitChars == <<"0", "1", "2", "3", "4", "5", "6", "7", "8", "9">>
WhiteSpace == {" ", "\n", "\t", "\r"}

\* The text of one code unit inside a quoted JSON string.
EscapeChar(c) ==
    CASE c = Quote     -> <<Backslash, Quote>>
      [] c = Backslash -> <<Backslash, Backslash>>
      [] c = "\n"      -> <<Backslash, "n">>
      [] c = "\t"      -> <<Backslash, "t">>
      [] c = "\r"      -> <<Backslash, "r">>
      [] c = "\f"      -> <<Backslash, "f">>
      [] OTHER         -> <<c>>

\* The escaped text of s (halving keeps the recursion depth logarithmic).
RECURSIVE EscapeAll(_)
EscapeAll(s) ==
    IF Len(s) = 0 THEN <<>>
    ELSE IF Len(s) = 1 THEN EscapeChar(s[1])
    ELSE LET h == Len(s) \div 2
         IN  EscapeAll(SubSeq(s, 1, h)) \o EscapeAll(SubSeq(s, h + 1, Len(s)))

QuoteJSONString(s) == <<Quote>> \o EscapeAll(s) \o <<Quote>>

DigitsToChars(ds) == [i \in 1..Len(ds) |-> DigitChars[ds[i] + 1]]

\* Number::toString: -0 is written "0"; the fraction follows a point.
NumberToString(v) ==
    (IF v.neg /\ ~(v.int = <<0>> /\ v.frac = <<>>) THEN <<"-">> ELSE <<>>)
    \o DigitsToChars(v.int)
    \o (IF v.frac = <<>> THEN <<>> ELSE <<".">> \o DigitsToChars(v.frac))

Spaces(n) == [i \in 1..n |-> " "]

\* parts[1] sep parts[2] sep ... parts[n]
RECURSIVE JoinFrom(_, _, _)
JoinFrom(parts, sep, i) ==
    IF i > Len(parts) THEN <<>>
    ELSE IF i = Len(parts) THEN parts[i]
    ELSE parts[i] \o sep \o JoinFrom(parts, sep, i + 1)

\* The n-th smallest member of the set S of integers.
Nth(S, n) == CHOOSE i \in S : Cardinality({j \in S : j <= i}) = n

\* The brackets and separators around the serialized members of an object or
\* an array: compact when gap = 0, else one member per line, indented.
Wrap(open, close, partial, gap, indent) ==
    IF Len(partial) = 0 THEN <<open, close>>
    ELSE IF gap = 0 THEN <<open>> \o JoinFrom(partial, <<",">>, 1) \o <<close>>
    ELSE <<open, "\n">> \o Spaces(indent + gap)
         \o JoinFrom(partial, <<",", "\n">> \o Spaces(indent + gap), 1)
         \o <<"\n">> \o Spaces(indent) \o <<close>>

\* SerializeJSONProperty: [defined |-> FALSE] stands for the result undefined.
RECURSIVE SerializeJSONProperty(_, _, _)
SerializeJSONObject(o, gap, indent) ==
    LET strs == [i \in 1..Len(o.kids) |->
                    SerializeJSONProperty(o.kids[i], gap, indent + gap)]
        kept == {i \in 1..Len(o.kids) : strs[i].defined}
        member(i) == QuoteJSONString(o.keys[i]) \o <<":">>
                     \o (IF gap = 0 THEN <<>> ELSE <<" ">>) \o strs[i].chars
        partial == [n \in 1..Cardinality(kept) |-> member(Nth(kept, n))]
    IN  Wrap("{", "}", partial, gap, indent)

SerializeJSONArray(a, gap, indent) ==
    LET strs == [i \in 1..Len(a.kids) |->
                    SerializeJSONProperty(a.kids[i], gap, indent + gap)]
        partial == [i \in 1..Len(a.kids) |->
                       IF strs[i].defined THEN strs[i].chars
                       ELSE <<"n", "u", "l", "l">>]
    IN  Wrap("[", "]", partial, gap, indent)

SerializeJSONProperty(v, gap, indent) ==
    CASE v.t = "null"    -> [defined |-> TRUE, chars |-> <<"n", "u", "l", "l">>]
      [] v.t = "boolean" -> [defined |-> TRUE,
                             chars |-> IF v.b THEN <<"t", "r", "u", "e">>
                                       ELSE <<"f", "a", "l", "s", "e">>]
      [] v.t = "string"  -> [defined |-> TRUE, chars |-> QuoteJSONString(v.s)]
      [] v.t = "number"  -> [defined |-> TRUE, chars |-> NumberToString(v)]
      [] v.t = "object"  -> [defined |-> TRUE,
                             chars |-> SerializeJSONObject(v, gap, indent)]
      [] v.t = "array"   -> [defined |-> TRUE,
                             chars |-> SerializeJSONArray(v, gap, indent)]
      [] OTHER           -> [defined |-> FALSE, chars |-> <<>>]

JSONstringify(v, space) == SerializeJSONProperty(v, space, 0)

-----------------------------------------------------------------------------
(* JSON.parse(text), ECMA-262 25.5.1, without a reviver, for the texts
   JSON.stringify writes for the values above: numbers have no exponent part
   and strings no \u escape. A result with ok = FALSE is a SyntaxError.
   StringToNumber is exact on these texts when the number is an integer below
   2^53; the model keeps the decimal as read. *)

Failed == [ok |-> FALSE, v |-> Undefined, pos |-> 0]
Parsed(v, pos) == [ok |-> TRUE, v |-> v, pos |-> pos]

RECURSIVE SkipWS(_, _)
SkipWS(text, i) ==
    IF i <= Len(text) /\ text[i] \in WhiteSpace THEN SkipWS(text, i + 1) ELSE i

\* The keyword word starts at text[i].
Matches(text, i, word) ==
    /\ i + Len(word) - 1 <= Len(text)
    /\ SubSeq(text, i, i + Len(word) - 1) = word

\* The number of backslashes that end right before text[j].
RECURSIVE BackslashRun(_, _)
BackslashRun(text, j) ==
    IF j > 1 /\ text[j - 1] = Backslash THEN 1 + BackslashRun(text, j - 1) ELSE 0

\* The code unit an escape letter stands for.
Unescaped(c) ==
    CASE c = "n" -> "\n" [] c = "t" -> "\t" [] c = "r" -> "\r"
      [] c = "f" -> "\f" [] OTHER -> c

\* The string a quoted body denotes: [ok, s].
RECURSIVE Unescape(_)
Unescape(body) ==
    LET bs == {i \in 1..Len(body) : body[i] = Backslash}
    IN  IF \E i \in 1..Len(body) : body[i] \in {"\n", "\t", "\r", "\f"}
        THEN [ok |-> FALSE, s |-> <<>>]
        ELSE IF bs = {} THEN [ok |-> TRUE, s |-> body]
        ELSE LET i == Nth(bs, 1)
             IN  IF i = Len(body)
                    \/ body[i + 1] \notin {Quote, Backslash, "/", "n", "t", "r", "f"}
                 THEN [ok |-> FALSE, s |-> <<>>]
                 ELSE LET rest == Unescape(SubSeq(body, i + 2, Len(body)))
                      IN  [ok |-> rest.ok,
                           s |-> SubSeq(body, 1, i - 1)
                                 \o <<Unescaped(body[i + 1])>> \o rest.s]

\* text[i] is the opening quote: [ok, s, pos].
ParseString(text, i) ==
    LET ends == {j \in (i + 1)..Len(text) :
                    text[j] = Quote /\ BackslashRun(text, j) % 2 = 0}
    IN  IF ends = {} THEN [ok |-> FALSE, s |-> <<>>, pos |-> 0]
        ELSE LET e == Nth(ends, 1)
                 u == Unescape(SubSeq(text, i + 1, e - 1))
             IN  [ok |-> u.ok, s |-> u.s, pos |-> e + 1]

IsDigit(c) == \E d \in 1..10 : DigitChars[d] = c
DigitValue(c) == (CHOOSE d \in 1..10 : DigitChars[d] = c) - 1

\* The first position from i on that holds no digit.
RECURSIVE DigitsEnd(_, _)
DigitsEnd(text, i) ==
    IF i <= Len(text) /\ IsDigit(text[i]) THEN DigitsEnd(text, i + 1) ELSE i

CharsToDigits(cs) == [i \in 1..Len(cs) |-> DigitValue(cs[i])]

\* ds without its trailing zeros.
RECURSIVE StripTrailingZeros(_)
StripTrailingZeros(ds) ==
    IF Len(ds) > 0 /\ ds[Len(ds)] = 0
    THEN StripTrailingZeros(SubSeq(ds, 1, Len(ds) - 1))
    ELSE ds

\* JSONNumber: -? (0 | [1-9][0-9]*) (. [0-9]+)?
ParseNumber(text, i) ==
    LET neg == text[i] = "-"
        a   == IF neg THEN i + 1 ELSE i
        b   == DigitsEnd(text, a)
        hasFrac == b <= Len(text) /\ text[b] = "."
        c   == IF hasFrac THEN DigitsEnd(text, b + 1) ELSE b
    IN  IF b = a \/ (b > a + 1 /\ text[a] = "0") \/ (hasFrac /\ c = b + 1)
        THEN Failed
        ELSE Parsed(Num(neg, CharsToDigits(SubSeq(text, a, b - 1)),
                        IF hasFrac
                        THEN StripTrailingZeros(CharsToDigits(SubSeq(text, b + 1, c - 1)))
                        ELSE <<>>),
                    c)

\* o with property k set to v: a repeated name keeps its place, the last
\* value wins.
WithProperty(o, k, v) ==
    IF HasKey(o, k)
    THEN Obj(o.keys, [i \in 1..Len(o.kids) |-> IF o.keys[i] = k THEN v ELSE o.kids[i]])
    ELSE Obj(Append(o.keys, k), Append(o.kids, v))

RECURSIVE ParseValue(_, _)
RECURSIVE ParseMembers(_, _, _)
RECURSIVE ParseElements(_, _, _)

\* text[i] starts a member (a quoted name) of the object o being read.
ParseMembers(text, i, o) ==
    IF i > Len(text) \/ text[i] # Quote THEN Failed
    ELSE LET k == ParseString(text, i)
             c == SkipWS(text, k.pos)
         IN  IF ~k.ok \/ c > Len(text) \/ text[c] # ":" THEN Failed
             ELSE LET r == ParseValue(text, c + 1)
                      n == SkipWS(text, r.pos)
                  IN  IF ~r.ok \/ n > Len(text) THEN Failed
                      ELSE IF text[n] = "}"
                      THEN Parsed(WithProperty(o, k.s, r.v), n + 1)
                      ELSE IF text[n] = ","
                      THEN ParseMembers(text, SkipWS(text, n + 1),
                                        WithProperty(o, k.s, r.v))
                      ELSE Failed

\* text[i] starts an element of the array a being read.
ParseElements(text, i, a) ==
    LET r == ParseValue(text, i)
        n == SkipWS(text, r.pos)
    IN  IF ~r.ok \/ n > Len(text) THEN Failed
        ELSE IF text[n] = "]" THEN Parsed(Arr(Append(a.kids, r.v)), n + 1)
        ELSE IF text[n] = ","
        THEN ParseElements(text, n + 1, Arr(Append(a.kids, r.v)))
        ELSE Failed

ParseValue(text, i0) ==
    LET i == SkipWS(text, i0)
    IN  IF i > Len(text) THEN Failed
        ELSE CASE text[i] = "{" ->
                    LET j == SkipWS(text, i + 1)
                    IN  IF j <= Len(text) /\ text[j] = "}"
                        THEN Parsed(Obj(<<>>, <<>>), j + 1)
                        ELSE ParseMembers(text, j, Obj(<<>>, <<>>))
               [] text[i] = "[" ->
                    LET j == SkipWS(text, i + 1)
                    IN  IF j <= Len(text) /\ text[j] = "]"
                        THEN Parsed(Arr(<<>>), j + 1)
                        ELSE ParseElements(text, j, Arr(<<>>))
               [] text[i] = Quote ->
                    LET s == ParseString(text, i)
                    IN  IF s.ok THEN Parsed(Str(s.s), s.pos) ELSE Failed
               [] text[i] = "-" \/ IsDigit(text[i]) -> ParseNumber(text, i)
               [] Matches(text, i, <<"t", "r", "u", "e">>) -> Parsed(Bool(TRUE), i + 4)
               [] Matches(text, i, <<"f", "a", "l", "s", "e">>) -> Parsed(Bool(FALSE), i + 5)
               [] Matches(text, i, <<"n", "u", "l", "l">>) -> Parsed(Null, i + 4)
               [] OTHER -> Failed

\* ToString of the argument JSON.parse is given: the text itself, or the
\* string "undefined" when JSON.stringify returned undefined.
ToStringArg(t) ==
    IF t.defined THEN t.chars ELSE <<"u", "n", "d", "e", "f", "i", "n", "e", "d">>

\* [ok, v]: the value read, or a SyntaxError when the text is not one JSON
\* value followed by white space only.
JSONparse(text) ==
    LET r == ParseValue(text, 1)
    IN  IF r.ok /\ SkipWS(text, r.pos) = Len(text) + 1
        THEN [ok |-> TRUE, v |-> r.v]
        ELSE [ok |-> FALSE, v |-> Undefined]

-----------------------------------------------------------------------------
(* The state: the constant, and one use of it. *)

VARIABLES
    requestBody,  \* the value bound by `const requestBody`
    pc,           \* "loaded", "serialized", "parsed" or "threw"
    arg,          \* the property chain whose value JSON.stringify was given
    space,        \* its `space` argument
    text,         \* what it returned: [defined, chars]
    parsed        \* what JSON.parse made of the text

vars == <<requestBody, pc, arg, space, text, parsed>>

\* The module has been evaluated: the literal is bound, nothing has read it.
Init ==
    /\ requestBody = requestBodyLiteral
    /\ pc = "loaded"
    /\ arg = <<>>
    /\ space = 0
    /\ text = [defined |-> FALSE, chars |-> <<>>]
    /\ parsed = Undefined

\* The object v without its properties whose value is undefined, at every
\* depth; array elements keep their places.
RECURSIVE WithoutUndefinedKeys(_)
WithoutUndefinedKeys(v) ==
    IF v.t = "object"
    THEN LET kept == {i \in 1..Len(v.kids) : v.kids[i].t # "undefined"}
         IN  Obj([n \in 1..Cardinality(kept) |-> v.keys[Nth(kept, n)]],
                 [n \in 1..Cardinality(kept) |->
                     WithoutUndefinedKeys(v.kids[Nth(kept, n)])])
    ELSE IF v.t = "array"
    THEN Arr([i \in 1..Len(v.kids) |-> WithoutUndefinedKeys(v.kids[i])])
    ELSE v

\* Variant: the serializer first drops the undefined properties from the
\* constant itself.
StringifyInPlace(p, n) ==
    /\ pc = "loaded"
    /\ arg' = p
    /\ space' = n
    /\ text' = JSONstringify(Get(requestBody, p), n)
    /\ pc' = "serialized"
    /\ requestBody' = WithoutUndefinedKeys(requestBody)
    /\ UNCHANGED parsed

\* text = JSON.stringify(requestBody<p>, undefined, n). It reads the constant.
Stringify(p, n) ==
    /\ pc = "loaded"
    /\ arg' = p
    /\ space' = n
    /\ text' = JSONstringify(Get(requestBody, p), n)
    /\ pc' = "serialized"
    /\ UNCHANGED <<requestBody, parsed>>

\* parsed = JSON.parse(text), the text being one JSON value.
ParseOk ==
    /\ pc = "serialized"
    /\ JSONparse(ToStringArg(text)).ok
    /\ parsed' = JSONparse(ToStringArg(text)).v
    /\ pc' = "parsed"
    /\ UNCHANGED <<requestBody, arg, space, text>>

\* JSON.parse(text) throws a SyntaxError.
ParseThrow ==
    /\ pc = "serialized"
    /\ ~JSONparse(ToStringArg(text)).ok
    /\ pc' = "threw"
    /\ UNCHANGED <<requestBody, arg, space, text, parsed>>

Next ==
    \/ \E p \in Paths(requestBody), n \in 0..MaxIndent : Stringify(p, n)
    \/ ParseOk
    \/ ParseThrow

Spec == Init /\ [][Next]_vars

-----------------------------------------------------------------------------
(* Reading the request. *)

RequestOf(rb) == Field(rb, k_createTransactionWithWaitRequest)
DetailsOf(rb) == Field(RequestOf(rb), k_details)
InputsOf(rb)  == Field(DetailsOf(rb), k_inputs)
SenderOf(rb)  == Field(DetailsOf(rb), k_sender)

\* The property chain, as positions, that the property names ks follow in v.
RECURSIVE KeyPath(_, _)
KeyPath(v, ks) ==
    IF ks = <<>> THEN <<>>
    ELSE LET i == CHOOSE i \in 1..Len(v.keys) : v.keys[i] = Head(ks)
         IN  <<i>> \o KeyPath(v.kids[i], Tail(ks))

RequestPath == KeyPath(requestBodyLiteral, <<k_createTransactionWithWaitRequest>>)
DetailsPath == RequestPath \o KeyPath(createTransactionWithWaitRequest, <<k_details>>)

\* The names of the properties of v, at any depth, whose value is undefined.
RECURSIVE UndefinedKeys(_)
UndefinedKeys(v) ==
    {v.keys[i] : i \in {j \in 1..Len(v.keys) : v.kids[j].t = "undefined"}}
    \cup UNION {UndefinedKeys(v.kids[i]) : i \in 1..Len(v.kids)}

HexDigits ==
    {"0", "1", "2", "3", "4", "5", "6", "7", "8", "9",
     "a", "b", "c", "d", "e", "f", "A", "B", "C", "D", "E", "F"}

\* "0x" followed by a non-zero, even number of hex digits.
IsHexBlob(s) ==
    /\ Len(s) > 2
    /\ s[1] = "0" /\ s[2] = "x"
    /\ \A i \in 3..Len(s) : s[i] \in HexDigits
    /\ (Len(s) - 2) % 2 = 0

\* 8-4-4-4-12 hex digits, single hyphens between the groups.
IsUUID(s) ==
    /\ Len(s) = 36
    /\ \A i \in 1..Len(s) :
          IF i \in {9, 14, 19, 24} THEN s[i] = "-" ELSE s[i] \in HexDigits

\* 2^53 = 9007199254740992, as decimal digits.
TwoPow53Digits == <<9, 0, 0, 7, 1, 9, 9, 2, 5, 4, 7, 4, 0, 9, 9, 2>>

\* a < b for natural numbers given by their digits, without leading zeros.
DigitsLess(a, b) ==
    \/ Len(a) < Len(b)
    \/ /\ Len(a) = Len(b)
       /\ \E i \in 1..Len(a) :
             /\ a[i] < b[i]
             /\ \A j \in 1..(i - 1) : a[j] = b[j]

\* A use of the constant has run to its end.
Finished == pc \in {"parsed", "threw"}

-----------------------------------------------------------------------------
(* The claims. *)

\* C1: details.inputs has exactly one element; that element has index = 0
\* and sighashTypes equal to the one-element sequence [1].
C1_SingleInput ==
    LET ins == InputsOf(requestBody)
    IN  /\ ins.t = "array"
        /\ Len(ins.kids) = 1
        /\ Field(Elem(ins, 0), k_index) = Num(FALSE, <<0>>, <<>>)
        /\ Field(Elem(ins, 0), k_sighashTypes) = Arr(<<Num(FALSE, <<1>>, <<>>)>>)

\* details.inputs has been sent and read back: one instruction, for input 0.
C1_Witness ==
    /\ pc = "parsed"
    /\ arg = DetailsPath \o KeyPath(details, <<k_inputs>>)
    /\ Len(parsed.kids) = 1
    /\ Field(Elem(parsed, 0), k_index) = Num(FALSE, <<0>>, <<>>)
    /\ Field(Elem(parsed, 0), k_sighashTypes) = Arr(<<Num(FALSE, <<1>>, <<>>)>>)

\* C2 as stated: JSON.parse(JSON.stringify(requestBody)) is structurally
\* identical to requestBody, the keys note, xIdempotenceId and
\* disableTweakSigner included.
C2_RoundTripIdentical ==
    (Finished /\ arg = <<>>) => (pc = "parsed" /\ parsed = requestBody)

\* C2 as amended: JSON.parse(JSON.stringify(requestBody)), for every `space`,
\* is requestBody without the properties whose value is undefined, and those
\* are exactly note, xIdempotenceId and disableTweakSigner; every other key
\* is kept at its place with the same value and type.
C2_RoundTripDropsUndefined ==
    (Finished /\ arg = <<>>) =>
        /\ pc = "parsed"
        /\ parsed = WithoutUndefinedKeys(requestBody)
        /\ UndefinedKeys(requestBody) = {k_note, k_xIdempotenceId, k_disableTweakSigner}
        /\ UndefinedKeys(parsed) = {}

\* The whole constant went through an indented text and came back without
\* the three undefined keys, the PSBT blob unchanged.
C2_Witness ==
    /\ pc = "parsed"
    /\ arg = <<>>
    /\ space > 0
    /\ HasKey(requestBody, k_xIdempotenceId)
    /\ ~HasKey(parsed, k_xIdempotenceId)
    /\ ~HasKey(RequestOf(parsed), k_note)
    /\ ~HasKey(Elem(InputsOf(parsed), 0), k_disableTweakSigner)
    /\ Field(DetailsOf(parsed), k_psbtRawData) = psbtRawData

\* C3 as stated: the request carries its chain-family tag in a field named
\* transactionType with the value "utxo_transaction", alongside
\* waitForState = "signed" and signerType = "api_signer".
C3_TransactionTypeField ==
    LET r == RequestOf(requestBody)
    IN  /\ HasKey(r, k_transactionType)
        /\ Field(r, k_transactionType) = Str(s_utxo_transaction)
        /\ Field(r, k_waitForState) = Str(s_signed)
        /\ Field(r, k_signerType) = Str(s_api_signer)

\* C3 as amended: the tag is carried in the field named type (the request has
\* no field named transactionType), with the value "utxo_transaction",
\* alongside waitForState = "signed" and signerType = "api_signer".
C3_TypeField ==
    LET r == RequestOf(requestBody)
    IN  /\ HasKey(r, k_type)
        /\ ~HasKey(r, k_transactionType)
        /\ Field(r, k_type) = Str(s_utxo_transaction)
        /\ Field(r, k_waitForState) = Str(s_signed)
        /\ Field(r, k_signerType) = Str(s_api_signer)

\* The request record has been sent and read back: the reader finds the tag
\* under type and nothing under transactionType.
C3_Witness ==
    /\ pc = "parsed"
    /\ arg = RequestPath
    /\ Field(parsed, k_type) = Str(s_utxo_transaction)
    /\ Field(parsed, k_transactionType) = Undefined

\* C4 as stated: note and vaultId are members of details, together with
\* type, inputs, autoFinalize, psbtRawData, sender and pushMode, and are not
\* members of the enclosing request record.
C4_NoteAndVaultInDetails ==
    LET r == RequestOf(requestBody)
        d == DetailsOf(requestBody)
    IN  /\ \A k \in {k_type, k_inputs, k_autoFinalize, k_psbtRawData, k_sender,
                     k_pushMode, k_note, k_vaultId} : HasKey(d, k)
        /\ ~HasKey(r, k_note)
        /\ ~HasKey(r, k_vaultId)

\* C4 as amended: the members of details are exactly type, inputs,
\* autoFinalize, psbtRawData, sender and pushMode; note and vaultId are
\* members of the enclosing request record, beside details, and not of
\* details.
C4_NoteAndVaultInRequest ==
    LET r == RequestOf(requestBody)
        d == DetailsOf(requestBody)
    IN  /\ {d.keys[i] : i \in 1..Len(d.keys)} =
              {k_type, k_inputs, k_autoFinalize, k_psbtRawData, k_sender, k_pushMode}
        /\ HasKey(r, k_details)
        /\ HasKey(r, k_note)
        /\ HasKey(r, k_vaultId)

\* The request record has been sent and read back: vaultId is read from the
\* request, and details holds none.
C4_Witness ==
    /\ pc = "parsed"
    /\ arg = RequestPath
    /\ space = 0
    /\ Field(parsed, k_vaultId) = vaultId
    /\ ~HasKey(Field(parsed, k_details), k_vaultId)
    /\ HasKey(Field(parsed, k_details), k_pushMode)

\* C5: requestBody never changes after load: in every reachable state every
\* field of it, psbtRawData in particular, equals its value in the initial
\* state.
C5_NeverMutated ==
    /\ requestBody = requestBodyLiteral
    /\ Field(DetailsOf(requestBody), k_psbtRawData) = Str(psbtRawDataChars)

\* The whole constant has been serialized and parsed; the copy differs from
\* it (the undefined keys are gone) and the constant is what it was.
C5_Witness ==
    /\ pc = "parsed"
    /\ arg = <<>>
    /\ space = 0
    /\ parsed # requestBody
    /\ requestBody = requestBodyLiteral

\* C6: note, xIdempotenceId and inputs[0].disableTweakSigner are declared and
\* all have the value undefined; none carries a concrete value.
C6_OptionalsUndefined ==
    /\ HasKey(RequestOf(requestBody), k_note)
    /\ Field(RequestOf(requestBody), k_note) = Undefined
    /\ HasKey(requestBody, k_xIdempotenceId)
    /\ Field(requestBody, k_xIdempotenceId) = Undefined
    /\ HasKey(Elem(InputsOf(requestBody), 0), k_disableTweakSigner)
    /\ Field(Elem(InputsOf(requestBody), 0), k_disableTweakSigner) = Undefined

\* xIdempotenceId was handed to JSON.stringify, which returned undefined, so
\* that reading the result back threw.
C6_Witness ==
    /\ pc = "threw"
    /\ arg = KeyPath(requestBodyLiteral, <<k_xIdempotenceId>>)
    /\ ~text.defined
    /\ Get(requestBody, arg) = Undefined

\* C7: details.psbtRawData starts with "0x", every following character is a
\* hexadecimal digit, and the number of hexadecimal digits is even and
\* non-zero.
C7_PsbtHex ==
    LET v == Field(DetailsOf(requestBody), k_psbtRawData)
    IN  v.t = "string" /\ IsHexBlob(v.s)

\* psbtRawData alone was sent and read back, still a hex blob of the same
\* length.
C7_Witness ==
    /\ pc = "parsed"
    /\ arg = DetailsPath \o KeyPath(details, <<k_psbtRawData>>)
    /\ IsHexBlob(parsed.s)
    /\ Len(parsed.s) = Len(psbtRawDataChars)

\* C8: vaultId has UUID format: 36 characters, five groups of 8, 4, 4, 4 and
\* 12 hexadecimal digits separated by single hyphens.
C8_VaultIdUUID ==
    LET v == Field(RequestOf(requestBody), k_vaultId)
    IN  v.t = "string" /\ IsUUID(v.s)

\* vaultId alone was sent and read back as a UUID.
C8_Witness ==
    /\ pc = "parsed"
    /\ arg = RequestPath \o KeyPath(createTransactionWithWaitRequest, <<k_vaultId>>)
    /\ parsed.t = "string"
    /\ IsUUID(parsed.s)

\* C9: xTimestamp is a positive integer (greater than 0, no fractional part)
\* and lies below 2^53.
C9_TimestampSafeInteger ==
    LET v == Field(requestBody, k_xTimestamp)
    IN  /\ v.t = "number"
        /\ ~v.neg
        /\ v.frac = <<>>
        /\ Len(v.int) > 0
        /\ v.int[1] # 0
        /\ DigitsLess(v.int, TwoPow53Digits)

\* xTimestamp alone was written as digits and read back as the same integer.
C9_Witness ==
    /\ pc = "parsed"
    /\ arg = KeyPath(requestBodyLiteral, <<k_xTimestamp>>)
    /\ text.chars = DigitsToChars(xTimestampDigits)
    /\ parsed = Field(requestBody, k_xTimestamp)
    /\ parsed.frac = <<>>

\* C10: for every element of details.inputs the signer identity is of type
\* "address" and its address equals details.sender.address, the taproot
\* address on bitcoin_mainnet.
C10_SignerIsSender ==
    LET ins == InputsOf(requestBody)
        snd == SenderOf(requestBody)
    IN  /\ Len(ins.kids) > 0
        /\ \A i \in 1..Len(ins.kids) :
              LET id == Field(ins.kids[i], k_signerIdentity)
              IN  /\ Field(id, k_type) = Str(s_address)
                  /\ Field(id, k_address).t = "string"
                  /\ Field(id, k_address) = Field(snd, k_address)
        /\ Field(snd, k_addressType) = Str(s_taproot)
        /\ Field(Field(snd, k_chain), k_uniqueId) = Str(s_bitcoin_mainnet)

\* details was sent and read back: the reader finds the sender's address as
\* the signer of the one input.
C10_Witness ==
    /\ pc = "parsed"
    /\ arg = DetailsPath
    /\ Field(Field(Elem(Field(parsed, k_inputs), 0), k_signerIdentity), k_address)
          = Field(Field(parsed, k_sender), k_address)
    /\ Field(Field(parsed, k_sender), k_address) = Str(senderAddressChars)

=============================================================================
